---- MODULE Spec2Model ----
(***************************************************************************)
(* Model of the fastq-qc pipeline: ingress-api (handleSubmit), qc-worker   *)
(* (consume loop, setStatus, setDone, processFASTQ) and the two Postgres   *)
(* tables and the RabbitMQ queue qc.jobs they share.                       *)
(***************************************************************************)
EXTENDS Integers, Sequences, FiniteSets, TLC

\* ---------------------------------------------------------------- bounds
MaxJobs == 1
\* how many times the environment may disturb the worker in one run: a crash, a
\* lost channel, a failed store write, a malformed message on the queue
MaxFaults == 2
\* how many job ids the store-level specification upserts for
MaxKeys == 3
\* how many lines the streams given to the analyzer on its own have
MaxLines == 8

JobIds == 1..MaxJobs
BadIds == (MaxJobs + 1)..(MaxJobs + MaxFaults)
\* a work item naming a job id the jobs table has never held (job id 0)
OrphanId == MaxJobs + MaxFaults + 1
MsgIds == JobIds \cup BadIds \cup {OrphanId}
Keys == 1..MaxKeys
Workers == {"w1", "w2"}

NULL == "NULL"
NoRow == [status |-> "norow"]
\* no qc_results row (sql.ErrNoRows / a nil *QC)
NoResult == [job_id |-> 0]
\* handleGetJob has answered nothing yet / is not running
NoResp == [code |-> 0]
NoQuery == [waiting |-> FALSE]
\* the analyzer has not run on stream
NoAnalysis == [ran |-> FALSE]
NoFile == [openable |-> FALSE, lines |-> << >>, present |-> FALSE]

\* processing_ms measured by time.Since(start): any of a few values
Durations == {1, 2}
\* outcome of one db.Exec / one PublishWithContext / one file write
IoOutcomes == BOOLEAN

\* ------------------------------------------------------- the FASTQ files
Whitespace == {" ", "\t", "\r"}

RECURSIVE TrimLeft(_)
TrimLeft(s) ==
    IF s = << >> THEN s
    ELSE IF Head(s) \in Whitespace THEN TrimLeft(Tail(s)) ELSE s

RECURSIVE TrimRight(_)
TrimRight(s) ==
    IF s = << >> THEN s
    ELSE IF s[Len(s)] \in Whitespace THEN TrimRight(SubSeq(s, 1, Len(s) - 1)) ELSE s

TrimSpace(s) == TrimRight(TrimLeft(s))

RECURSIVE CountIn(_, _)
CountIn(seq, set) ==
    IF seq = << >> THEN 0
    ELSE (IF Head(seq) \in set THEN 1 ELSE 0) + CountIn(Tail(seq), set)

\* the scan loop taking lineIdx%4 == 0 for the sequence line
RECURSIVE ScanFromHeader(_, _, _)
ScanFromHeader(lines, i, acc) ==
    IF i > Len(lines) THEN acc
    ELSE IF (i - 1) % 4 = 0
         THEN LET seq == TrimSpace(lines[i])
              IN  ScanFromHeader(lines, i + 1,
                      [totalReads |-> acc.totalReads + 1,
                       totalBases |-> acc.totalBases + Len(seq),
                       gcCount    |-> acc.gcCount + CountIn(seq, {"G", "g", "C", "c"}),
                       nCount     |-> acc.nCount + CountIn(seq, {"N", "n"})])
         ELSE ScanFromHeader(lines, i + 1, acc)

\* the scan loop with the N case also falling into the GC case
RECURSIVE ScanFromFallthrough(_, _, _)
ScanFromFallthrough(lines, i, acc) ==
    IF i > Len(lines) THEN acc
    ELSE IF (i - 1) % 4 = 1
         THEN LET seq == TrimSpace(lines[i])
              IN  ScanFromFallthrough(lines, i + 1,
                      [totalReads |-> acc.totalReads + 1,
                       totalBases |-> acc.totalBases + Len(seq),
                       gcCount    |-> acc.gcCount + CountIn(seq, {"G", "g", "C", "c", "N", "n"}),
                       nCount     |-> acc.nCount + CountIn(seq, {"N", "n"})])
         ELSE ScanFromFallthrough(lines, i + 1, acc)

\* the scan loop counting a sequence line only when its record is complete
RECURSIVE ScanFromCompleteOnly(_, _, _)
ScanFromCompleteOnly(lines, i, acc) ==
    IF i > Len(lines) THEN acc
    ELSE IF (i - 1) % 4 = 1 /\ i + 2 <= Len(lines)
         THEN LET seq == TrimSpace(lines[i])
              IN  ScanFromCompleteOnly(lines, i + 1,
                      [totalReads |-> acc.totalReads + 1,
                       totalBases |-> acc.totalBases + Len(seq),
                       gcCount    |-> acc.gcCount + CountIn(seq, {"G", "g", "C", "c"}),
                       nCount     |-> acc.nCount + CountIn(seq, {"N", "n"})])
         ELSE ScanFromCompleteOnly(lines, i + 1, acc)

\* the scan loop of processFASTQ: lineIdx is 0-based, lines is 1-based
RECURSIVE ScanFrom(_, _, _)
ScanFrom(lines, i, acc) ==
    IF i > Len(lines) THEN acc
    ELSE IF (i - 1) % 4 = 1
         THEN LET seq == TrimSpace(lines[i])
              IN  ScanFrom(lines, i + 1,
                      [totalReads |-> acc.totalReads + 1,
                       totalBases |-> acc.totalBases + Len(seq),
                       gcCount    |-> acc.gcCount + CountIn(seq, {"G", "g", "C", "c"}),
                       nCount     |-> acc.nCount + CountIn(seq, {"N", "n"})])
         ELSE ScanFrom(lines, i + 1, acc)

Scan(lines) ==
    ScanFrom(lines, 1, [totalReads |-> 0, totalBases |-> 0, gcCount |-> 0, nCount |-> 0])

\* float64(a)/float64(b) kept as the exact fraction; 0 when the guard fails
Frac(a, b) == IF b > 0 THEN <<a, b>> ELSE <<0, 1>>

\* the values bound to $2..$5 of the INSERT
Metrics(lines) ==
    LET t == Scan(lines)
    IN  [reads           |-> t.totalReads,
         avg_read_length |-> Frac(t.totalBases, t.totalReads),
         gc_content      |-> Frac(t.gcCount, t.totalBases),
         n_content       |-> Frac(t.nCount, t.totalBases)]

TinyFastq == << <<"@", "r">>, <<"A", "C", "G", "N", " ">>, <<"+">>, <<"I", "I", "I", "I">> >>

\* the uploads the model submits: one the worker can open, one it cannot
SampleFiles ==
    { [openable |-> TRUE,  lines |-> TinyFastq, present |-> TRUE],
      [openable |-> FALSE, lines |-> TinyFastq, present |-> TRUE] }

VARIABLES
    jobs,        \* table jobs: id -> row, or NoRow
    qc,          \* table qc_results: a set of rows
    files,       \* the upload directory: job id -> file
    broker,      \* queue qc.jobs: message -> none/ready/unacked/acked/nacked
    pc,          \* each worker's position in the consume loop
    cur,         \* the delivery d a worker holds (0: none)
    held,        \* whether the broker still counts d as this worker's delivery
    ms,          \* processFASTQ's local ms (0: not computed)
    err,         \* the error a worker carries to the failure branch
    stErr,       \* what setStatus(.., "processing", nil) returned to the loop
    subPc,       \* handleSubmit's position
    nextId,      \* the next job id uuid.New() hands out
    submitResp,  \* the HTTP outcome of each submit
    lastUpsert,  \* the row the latest successful INSERT ... ON CONFLICT carried
    hist,        \* what the environment has done so far
    q,           \* handleGetJob between its two SELECTs
    resp,        \* the latest response of handleGetJob
    stream,      \* the lines of the file the analyzer is run on by itself
    analysis     \* what the analyzer returned for stream

vars == <<jobs, qc, files, broker, pc, cur, held, ms, err, stErr, subPc, nextId, submitResp,
          lastUpsert, hist, q, resp, stream, analysis>>

workerVars == <<pc, cur, held, ms, err, stErr>>
queryVars == <<q, resp>>
analyzerVars == <<stream, analysis>>
sideVars == <<q, resp, stream, analysis>>
submitVars == <<subPc, nextId, submitResp, files>>

Body(m) ==
    IF m \in JobIds THEN [decodes |-> TRUE, job_id |-> m]
    ELSE IF m = OrphanId THEN [decodes |-> TRUE, job_id |-> 0]
    ELSE [decodes |-> FALSE, job_id |-> 0]

Init ==
    /\ jobs = [j \in JobIds |-> NoRow]
    /\ qc = {}
    /\ files = [j \in JobIds |-> NoFile]
    /\ broker = [m \in MsgIds |-> "none"]
    /\ pc = [w \in Workers |-> "idle"]
    /\ cur = [w \in Workers |-> 0]
    /\ held = [w \in Workers |-> FALSE]
    /\ ms = [w \in Workers |-> 0]
    /\ err = [w \in Workers |-> NULL]
    /\ stErr = [w \in Workers |-> NULL]
    /\ q = NoQuery
    /\ resp = NoResp
    /\ stream = << >>
    /\ analysis = NoAnalysis
    /\ subPc = "idle"
    /\ nextId = 1
    /\ submitResp = [j \in JobIds |-> "none"]
    /\ lastUpsert = NoResult
    /\ hist = [faults |-> 0, dbFault |-> FALSE, connLost |-> FALSE, lateCrash |-> FALSE,
               redelivered |-> {}]

\* ------------------------------------------------------------ the stores
\* INSERT INTO jobs (id, filename, status) VALUES ($1,$2,'queued')
InsertJob(tbl, j) ==
    [tbl EXCEPT ![j] = [status |-> "queued", error |-> NULL, completed_at |-> NULL]]

\* UPDATE jobs SET status=$2, error=$3 WHERE id=$1
SetStatusRow(tbl, j, status, errMsg) ==
    IF j \in DOMAIN tbl /\ tbl[j] # NoRow
    THEN [tbl EXCEPT ![j] = [@ EXCEPT !.status = status, !.error = errMsg]]
    ELSE tbl

\* UPDATE jobs SET status='done', completed_at=now() WHERE id=$1
SetDoneRow(tbl, j) ==
    IF j \in DOMAIN tbl /\ tbl[j] # NoRow
    THEN [tbl EXCEPT ![j] = [@ EXCEPT !.status = "done", !.completed_at = "now"]]
    ELSE tbl

RowsOf(tbl, j) == {r \in tbl : r.job_id = j}

\* a plain INSERT into a table without the primary key: the old row stays
InsertRow(tbl, row) == tbl \cup {row}

\* INSERT INTO qc_results ... ON CONFLICT (job_id) DO UPDATE SET ...
UpsertRow(tbl, row) == (tbl \ RowsOf(tbl, row.job_id)) \cup {row}

\* qc_results.job_id REFERENCES jobs(id)
ForeignKeyOk(j) == j \in DOMAIN jobs /\ jobs[j] # NoRow

ResultRow(j, lines, dur) ==
    LET m == Metrics(lines)
    IN  [job_id |-> j, reads |-> m.reads, avg_read_length |-> m.avg_read_length,
         gc_content |-> m.gc_content, n_content |-> m.n_content, processing_ms |-> dur]

\* ------------------------------------------------------------- the queue
\* d.Ack / d.Nack(false, false): settle the delivery if the broker still has it
Settle(b, m, isHeld, how) == IF isHeld /\ b[m] = "unacked" THEN [b EXCEPT ![m] = how] ELSE b

\* a consumer declared with autoAck: the broker forgets a delivery once it is sent
RequeueAutoAck(b, m, isHeld) == IF isHeld /\ b[m] = "unacked" THEN [b EXCEPT ![m] = "acked"] ELSE b

\* an unacknowledged delivery goes back to the queue when its consumer is gone
\* (ch.Consume with autoAck = false)
Requeue(b, m, isHeld) == IF isHeld /\ b[m] = "unacked" THEN [b EXCEPT ![m] = "ready"] ELSE b

JobOf(w) == Body(cur[w]).job_id

\* the file msg.Path names; an orphan work item names a file that can be read
OrphanFile == [openable |-> TRUE, lines |-> TinyFastq, present |-> TRUE]
FileOf(w) == IF JobOf(w) \in JobIds THEN files[JobOf(w)] ELSE OrphanFile

\* the error db.Exec hands back: nil also when the UPDATE matched no row
ExecErr(ok) == IF ok THEN NULL ELSE "db_failed"

Release(w) ==
    /\ cur' = [cur EXCEPT ![w] = 0]
    /\ held' = [held EXCEPT ![w] = FALSE]
    /\ ms' = [ms EXCEPT ![w] = 0]
    /\ err' = [err EXCEPT ![w] = NULL]
    /\ stErr' = [stErr EXCEPT ![w] = NULL]

CanFault == hist.faults < MaxFaults

\* the outcomes of one db.Exec of the worker
DbOutcomes == IF CanFault THEN BOOLEAN ELSE {TRUE}

NoteDb(ok) ==
    hist' = IF ok THEN hist ELSE [hist EXCEPT !.faults = @ + 1, !.dbFault = TRUE]

\* --------------------------------------------------- ingress-api: submit
\* os.Create + out.ReadFrom
SubmitSave ==
    /\ subPc = "idle"
    /\ nextId <= MaxJobs
    /\ \E f \in SampleFiles, ok \in IoOutcomes :
         IF ok
         THEN /\ files' = [files EXCEPT ![nextId] = f]
              /\ subPc' = "saved"
              /\ UNCHANGED <<nextId, submitResp>>
         ELSE /\ submitResp' = [submitResp EXCEPT ![nextId] = "error"]
              /\ nextId' = nextId + 1
              /\ UNCHANGED <<files, subPc>>
    /\ UNCHANGED <<jobs, qc, lastUpsert, broker, workerVars, hist, sideVars>>

\* db.Exec(INSERT INTO jobs ...)
SubmitInsert ==
    /\ subPc = "saved"
    /\ \E ok \in IoOutcomes :
         IF ok
         THEN /\ jobs' = InsertJob(jobs, nextId)
              /\ subPc' = "inserted"
              /\ UNCHANGED <<nextId, submitResp>>
         ELSE /\ submitResp' = [submitResp EXCEPT ![nextId] = "error"]
              /\ nextId' = nextId + 1
              /\ subPc' = "idle"
              /\ UNCHANGED jobs
    /\ UNCHANGED <<qc, lastUpsert, files, broker, workerVars, hist, sideVars>>

\* amqpCh.PublishWithContext, then the 200 response
SubmitPublish ==
    /\ subPc = "inserted"
    /\ \E ok \in IoOutcomes :
         /\ broker' = IF ok THEN [broker EXCEPT ![nextId] = "ready"] ELSE broker
         /\ submitResp' = [submitResp EXCEPT ![nextId] = IF ok THEN "ok" ELSE "error"]
    /\ nextId' = nextId + 1
    /\ subPc' = "idle"
    /\ UNCHANGED <<jobs, qc, lastUpsert, files, workerVars, hist, sideVars>>

\* any other publisher on qc.jobs: a body json.Unmarshal rejects
PublishGarbage ==
    /\ hist.faults < MaxFaults
    /\ \E m \in BadIds :
         /\ broker[m] = "none"
         /\ \A n \in BadIds : n < m => broker[n] # "none"
         /\ broker' = [broker EXCEPT ![m] = "ready"]
    /\ hist' = [hist EXCEPT !.faults = @ + 1]
    /\ UNCHANGED <<jobs, qc, lastUpsert, files, workerVars, subPc, nextId, submitResp, sideVars>>

\* ------------------------------------------------- qc-worker: the loop
\* for d := range msgs
Pull(w) ==
    /\ pc[w] = "idle"
    /\ \E m \in MsgIds :
         /\ broker[m] = "ready"
         /\ broker' = [broker EXCEPT ![m] = "unacked"]
         /\ cur' = [cur EXCEPT ![w] = m]
    /\ held' = [held EXCEPT ![w] = TRUE]
    /\ pc' = [pc EXCEPT ![w] = "decode"]
    /\ UNCHANGED <<jobs, qc, lastUpsert, ms, err, stErr, submitVars, hist, sideVars>>

\* d.Nack(false, true): the undecodable delivery goes back to the queue
DecodeFailRequeue(w) ==
    /\ pc[w] = "decode"
    /\ ~Body(cur[w]).decodes
    /\ broker' = Requeue(broker, cur[w], held[w])
    /\ pc' = [pc EXCEPT ![w] = "idle"]
    /\ Release(w)
    /\ UNCHANGED <<jobs, qc, lastUpsert, submitVars, hist, sideVars>>

\* json.Unmarshal fails: d.Nack(false, false); continue
DecodeFail(w) ==
    /\ pc[w] = "decode"
    /\ ~Body(cur[w]).decodes
    /\ broker' = Settle(broker, cur[w], held[w], "nacked")
    /\ pc' = [pc EXCEPT ![w] = "idle"]
    /\ Release(w)
    /\ UNCHANGED <<jobs, qc, lastUpsert, submitVars, hist, sideVars>>

\* json.Unmarshal succeeds; setStatus(msg.JobID, "processing", nil), error only logged
StartProcessing(w) ==
    /\ pc[w] = "decode"
    /\ Body(cur[w]).decodes
    /\ \E ok \in DbOutcomes :
         /\ jobs' = IF ok THEN SetStatusRow(jobs, JobOf(w), "processing", NULL) ELSE jobs
         /\ stErr' = [stErr EXCEPT ![w] = ExecErr(ok)]
         /\ NoteDb(ok)
    /\ pc' = [pc EXCEPT ![w] = "process"]
    /\ UNCHANGED <<qc, lastUpsert, broker, cur, held, ms, err, submitVars, sideVars>>

\* processFASTQ without the check of os.Open's error: it scans nothing and goes on
AnalyzeIgnoringOpenError(w) ==
    /\ pc[w] = "process"
    /\ \E dur \in Durations : ms' = [ms EXCEPT ![w] = dur]
    /\ pc' = [pc EXCEPT ![w] = "upsert"]
    /\ UNCHANGED <<jobs, qc, lastUpsert, broker, cur, held, err, stErr, submitVars, hist, sideVars>>

\* processFASTQ up to the INSERT: os.Open, the scan loop, ms
Analyze(w) ==
    /\ pc[w] = "process"
    /\ IF FileOf(w).openable
       THEN /\ \E dur \in Durations : ms' = [ms EXCEPT ![w] = dur]
            /\ pc' = [pc EXCEPT ![w] = "upsert"]
            /\ UNCHANGED err
       ELSE /\ err' = [err EXCEPT ![w] = "open_failed"]
            /\ pc' = [pc EXCEPT ![w] = "nack"]
            /\ UNCHANGED ms
    /\ UNCHANGED <<jobs, qc, lastUpsert, broker, cur, held, stErr, submitVars, hist, sideVars>>

\* processFASTQ returning nil whatever db.Exec returned
UpsertIgnoringError(w) ==
    /\ pc[w] = "upsert"
    /\ \E ok \in DbOutcomes :
         /\ NoteDb(ok)
         /\ IF ok /\ ForeignKeyOk(JobOf(w))
            THEN /\ qc' = UpsertRow(qc, ResultRow(JobOf(w), FileOf(w).lines, ms[w]))
                 /\ lastUpsert' = ResultRow(JobOf(w), FileOf(w).lines, ms[w])
            ELSE UNCHANGED <<qc, lastUpsert>>
    /\ pc' = [pc EXCEPT ![w] = "ack"]
    /\ UNCHANGED <<jobs, broker, cur, held, ms, err, stErr, submitVars, sideVars>>

\* processFASTQ's db.Exec(INSERT ... ON CONFLICT ...) and its return
Upsert(w) ==
    /\ pc[w] = "upsert"
    /\ \E ok \in DbOutcomes :
         /\ NoteDb(ok)
         /\ IF ok /\ ForeignKeyOk(JobOf(w))
            THEN /\ qc' = UpsertRow(qc, ResultRow(JobOf(w), FileOf(w).lines, ms[w]))
                 /\ lastUpsert' = ResultRow(JobOf(w), FileOf(w).lines, ms[w])
                 /\ pc' = [pc EXCEPT ![w] = "ack"]
                 /\ UNCHANGED err
            ELSE /\ err' = [err EXCEPT ![w] = "db_failed"]
                 /\ pc' = [pc EXCEPT ![w] = "nack"]
                 /\ UNCHANGED <<qc, lastUpsert>>
    /\ UNCHANGED <<jobs, broker, cur, held, ms, stErr, submitVars, sideVars>>

\* the failure branch calling d.Ack(false) instead
NackAsAck(w) ==
    /\ pc[w] = "nack"
    /\ broker' = Settle(broker, cur[w], held[w], "acked")
    /\ pc' = [pc EXCEPT ![w] = "setError"]
    /\ UNCHANGED <<jobs, qc, lastUpsert, cur, held, ms, err, stErr, submitVars, hist, sideVars>>

\* err != nil: d.Nack(false, false)
Nack(w) ==
    /\ pc[w] = "nack"
    /\ broker' = Settle(broker, cur[w], held[w], "nacked")
    /\ pc' = [pc EXCEPT ![w] = "setError"]
    /\ UNCHANGED <<jobs, qc, lastUpsert, cur, held, ms, err, stErr, submitVars, hist, sideVars>>

\* setStatus(msg.JobID, "error", &err.Error()); its result is dropped; continue
SetError(w) ==
    /\ pc[w] = "setError"
    /\ \E ok \in DbOutcomes :
         /\ jobs' = IF ok THEN SetStatusRow(jobs, JobOf(w), "error", err[w]) ELSE jobs
         /\ NoteDb(ok)
    /\ pc' = [pc EXCEPT ![w] = "idle"]
    /\ Release(w)
    /\ UNCHANGED <<qc, lastUpsert, broker, submitVars, sideVars>>

\* err == nil: d.Ack(false)
Ack(w) ==
    /\ pc[w] = "ack"
    /\ broker' = Settle(broker, cur[w], held[w], "acked")
    /\ pc' = [pc EXCEPT ![w] = "setDone"]
    /\ UNCHANGED <<jobs, qc, lastUpsert, cur, held, ms, err, stErr, submitVars, hist, sideVars>>

\* setDone(msg.JobID), error only logged; next iteration
SetDone(w) ==
    /\ pc[w] = "setDone"
    /\ \E ok \in DbOutcomes :
         /\ jobs' = IF ok THEN SetDoneRow(jobs, JobOf(w)) ELSE jobs
         /\ NoteDb(ok)
    /\ pc' = [pc EXCEPT ![w] = "idle"]
    /\ Release(w)
    /\ UNCHANGED <<qc, lastUpsert, broker, submitVars, sideVars>>

\* ------------------------------------------------------ the environment
Unsettled(w) == cur[w] # 0 /\ held[w] /\ broker[cur[w]] = "unacked"

\* the worker process dies and is restarted; the broker requeues what it held
Crash(w) ==
    /\ pc[w] # "idle"
    /\ CanFault
    /\ broker' = Requeue(broker, cur[w], held[w])
    /\ hist' = IF Unsettled(w)
               THEN [hist EXCEPT !.faults = @ + 1, !.redelivered = @ \cup {cur[w]}]
               ELSE [hist EXCEPT !.faults = @ + 1, !.lateCrash = TRUE]
    /\ pc' = [pc EXCEPT ![w] = "idle"]
    /\ Release(w)
    /\ UNCHANGED <<jobs, qc, lastUpsert, submitVars, sideVars>>

\* the worker's channel drops while it works on: the broker requeues the
\* delivery, the worker's later d.Ack / d.Nack fails and the error is dropped
ConnLost(w) ==
    /\ Unsettled(w)
    /\ CanFault
    /\ broker' = Requeue(broker, cur[w], held[w])
    /\ held' = [held EXCEPT ![w] = FALSE]
    /\ hist' = [hist EXCEPT !.faults = @ + 1, !.connLost = TRUE]
    /\ UNCHANGED <<jobs, qc, lastUpsert, pc, cur, ms, err, stErr, submitVars, sideVars>>

Submit == SubmitSave \/ SubmitInsert \/ SubmitPublish

Worker(w) ==
    \/ Pull(w) \/ DecodeFail(w) \/ StartProcessing(w) \/ Analyze(w) \/ Upsert(w)
    \/ Nack(w) \/ SetError(w) \/ Ack(w) \/ SetDone(w)

Next ==
    \/ Submit
    \/ PublishGarbage
    \/ \E w \in Workers : Worker(w) \/ Crash(w) \/ ConnLost(w)

Spec == Init /\ [][Next]_vars

\* ------------------------------------ a work item for an unknown job id
\* any other publisher on qc.jobs: a well-formed body whose job_id has no jobs row
PublishOrphan ==
    /\ broker[OrphanId] = "none"
    /\ broker' = [broker EXCEPT ![OrphanId] = "ready"]
    /\ UNCHANGED <<jobs, qc, lastUpsert, files, workerVars, subPc, nextId, submitResp, hist, sideVars>>

NextOrphan == Next \/ PublishOrphan

SpecOrphan == Init /\ [][NextOrphan]_vars

\* ------------------------------------------- results-api: handleGetJob
\* SELECT ... FROM jobs WHERE id=$1
ReadJob(tbl, id) == IF id \in DOMAIN tbl THEN tbl[id] ELSE NoRow

\* SELECT ... FROM qc_results WHERE job_id=$1; a Scan error leaves qc nil
ReadQC(tbl, id) == IF RowsOf(tbl, id) = {} THEN NoResult ELSE CHOOSE r \in RowsOf(tbl, id) : TRUE

\* the response built from the two reads: 404, or Resp{Job, QC}
Respond(job, qcRow) ==
    IF job = NoRow THEN [code |-> 404]
    ELSE [code |-> 200, job |-> job, qc |-> qcRow]

\* the ids a client asks for: the jobs, and one id no job has
QueryIds == JobIds \cup {0}

\* the first SELECT; no row: 404 at once
GetJobRead ==
    /\ ~q.waiting
    /\ \E id \in QueryIds :
         LET job == ReadJob(jobs, id)
         IN  IF job = NoRow
             THEN /\ resp' = Respond(job, NoResult)
                  /\ UNCHANGED q
             ELSE /\ q' = [waiting |-> TRUE, id |-> id, job |-> job]
                  /\ resp' = NoResp
    /\ UNCHANGED <<jobs, qc, lastUpsert, files, broker, workerVars, subPc, nextId, submitResp,
                   hist, analyzerVars>>

\* the second SELECT and the encoded response
GetJobRespond ==
    /\ q.waiting
    /\ resp' = Respond(q.job, ReadQC(qc, q.id))
    /\ q' = NoQuery
    /\ UNCHANGED <<jobs, qc, lastUpsert, files, broker, workerVars, subPc, nextId, submitResp,
                   hist, analyzerVars>>

NextQuery == Next \/ GetJobRead \/ GetJobRespond

SpecQuery == Init /\ [][NextQuery]_vars

\* ------------------------------------------- the analyzer on its own
\* the lines the streams are made of
AnalyzerLines == { <<"G", "c", "\t">>, <<" ", "n", "A", "N">>, << >> }

\* sc.Scan() hands the next line of the file to the loop
FeedLine ==
    /\ Len(stream) < MaxLines
    /\ \E l \in AnalyzerLines : stream' = Append(stream, l)
    /\ analysis' = NoAnalysis
    /\ UNCHANGED <<jobs, qc, lastUpsert, files, broker, workerVars, subPc, nextId, submitResp,
                   hist, queryVars>>

\* processFASTQ on stream, up to the values handed to the INSERT
RunAnalyzer ==
    /\ ~analysis.ran
    /\ analysis' = [ran |-> TRUE, err |-> NULL, totals |-> Scan(stream),
                    metrics |-> Metrics(stream)]
    /\ UNCHANGED <<jobs, qc, lastUpsert, files, broker, workerVars, subPc, nextId, submitResp,
                   hist, queryVars, stream>>

NextAnalyzer == FeedLine \/ RunAnalyzer

SpecAnalyzer == Init /\ [][NextAnalyzer]_vars

\* --------------------------------- the qc_results table on its own
\* the streams the store-level specification analyses
StoreInputs == {TinyFastq, << >>}

InitStore ==
    /\ jobs = [k \in Keys |-> [status |-> "queued", error |-> NULL, completed_at |-> NULL]]
    /\ qc = {}
    /\ files = [j \in JobIds |-> NoFile]
    /\ broker = [m \in MsgIds |-> "none"]
    /\ pc = [w \in Workers |-> "idle"]
    /\ cur = [w \in Workers |-> 0]
    /\ held = [w \in Workers |-> FALSE]
    /\ ms = [w \in Workers |-> 0]
    /\ err = [w \in Workers |-> NULL]
    /\ stErr = [w \in Workers |-> NULL]
    /\ q = NoQuery
    /\ resp = NoResp
    /\ stream = << >>
    /\ analysis = NoAnalysis
    /\ subPc = "idle"
    /\ nextId = 1
    /\ submitResp = [j \in JobIds |-> "none"]
    /\ lastUpsert = NoResult
    /\ hist = [faults |-> 0, dbFault |-> FALSE, connLost |-> FALSE, lateCrash |-> FALSE,
               redelivered |-> {}]

\* one successful db.Exec of the INSERT ... ON CONFLICT of processFASTQ
StoreUpsert ==
    /\ \E k \in Keys, lines \in StoreInputs, dur \in Durations :
         /\ ForeignKeyOk(k)
         /\ qc' = UpsertRow(qc, ResultRow(k, lines, dur))
         /\ lastUpsert' = ResultRow(k, lines, dur)
    /\ UNCHANGED <<jobs, files, broker, workerVars, subPc, nextId, submitResp, hist, sideVars>>

NextStore == StoreUpsert

SpecStore == InitStore /\ [][NextStore]_vars

TypeOK ==
    /\ \A j \in JobIds : jobs[j] = NoRow \/ jobs[j].status \in {"queued", "processing", "done", "error"}
    /\ \A m \in MsgIds : broker[m] \in {"none", "ready", "unacked", "acked", "nacked"}

\* ---------------------------------------------------------- vocabulary
StatusOf(j) == jobs[j].status
HasResult(j) == RowsOf(qc, j) # {}
\* some worker is inside the loop body for a delivery of job j
Busy(j) == \E w \in Workers : cur[w] # 0 /\ JobOf(w) = j
\* the delivery of job j has left the queue
Settled(j) == broker[j] \in {"acked", "nacked"}
\* no store write failed, no channel was lost, no worker died after settling
Undisturbed == ~hist.dbFault /\ ~hist.connLost /\ ~hist.lateCrash
\* the step is a crash of worker w
CrashStep(w) == pc[w] # "idle" /\ pc'[w] = "idle" /\ hist'.faults > hist.faults /\ cur[w] # 0
Unreadable(j) == files[j].present /\ ~files[j].openable

\* ------------------------------------------------------------------ C1
\* C1: once a job's stored status is done or error, no step changes it.
C1_TerminalNeverOverwritten ==
    [][\A j \in JobIds :
         (jobs[j] # NoRow /\ jobs[j].status \in {"done", "error"})
            => jobs'[j].status = jobs[j].status]_vars

\* ------------------------------------------------------------------ C2
\* C2: a work item is acknowledged-success only when its job is already done.
C2_AckOnlyAfterDone ==
    \A j \in JobIds : broker[j] = "acked" => StatusOf(j) = "done"

\* ------------------------------------------------------------------ C3
\* C3: a worker crash before the acknowledgment puts the work item back in the
\* queue, and once the item has been settled and handled to the end the job has
\* the outcome its input decides (done and one result row for a readable input,
\* error and no row for an unreadable one); never two result rows for a job.
C3_Outcome ==
    \A j \in JobIds :
        /\ Cardinality(RowsOf(qc, j)) <= 1
        /\ (Undisturbed /\ Settled(j) /\ ~Busy(j)) =>
              IF files[j].openable
              THEN StatusOf(j) = "done" /\ broker[j] = "acked" /\ Cardinality(RowsOf(qc, j)) = 1
              ELSE StatusOf(j) = "error" /\ broker[j] = "nacked" /\ ~HasResult(j)

C3_Redelivered ==
    \A w \in Workers : (CrashStep(w) /\ Unsettled(w)) => broker'[cur[w]] = "ready"

C3_AtLeastOnce == [](C3_Outcome) /\ [][C3_Redelivered]_vars

\* a job whose delivery died with a worker and was redelivered is done
C3_Witness ==
    \E j \in JobIds :
        /\ j \in hist.redelivered /\ Undisturbed /\ Settled(j) /\ ~Busy(j)
        /\ StatusOf(j) = "done" /\ HasResult(j)

\* ------------------------------------------------------------------ C4
\* C4: a result row exists for a job exactly when the job's status is done.
C4_ResultIffDone ==
    \A j \in JobIds : HasResult(j) <=> (jobs[j] # NoRow /\ StatusOf(j) = "done")

\* ------------------------------------------------------------------ C5
\* C5: completed_at is null exactly when the status is queued or processing.
C5_CompletedAtIffTerminal ==
    \A j \in JobIds :
        jobs[j] # NoRow =>
            ((jobs[j].completed_at = NULL) <=> (jobs[j].status \in {"queued", "processing"}))

\* ------------------------------------------------------------------ C6
\* C6: a successfully submitted job that is still queued or processing has its
\* work item in the queue or in a worker's hands, so it can still finish.
C6_NoStuckJob ==
    \A j \in JobIds :
        (submitResp[j] = "ok" /\ StatusOf(j) \in {"queued", "processing"})
            => (broker[j] \in {"ready", "unacked"} \/ Busy(j))

\* ------------------------------------------------------------------ C7
\* C7: a job whose input cannot be opened never gets a result row, carries an
\* error text whenever its status is error, moves only queued -> processing ->
\* error while no store write fails and no channel is lost, and once its item is
\* handled to the end it is in status error and a query answers with the job in
\* error and no qc.
C7_State ==
    \A j \in JobIds :
        Unreadable(j) =>
            /\ ~HasResult(j)
            /\ (jobs[j] # NoRow /\ StatusOf(j) = "error") => jobs[j].error # NULL
            /\ (Undisturbed /\ Settled(j) /\ ~Busy(j)) =>
                  /\ StatusOf(j) = "error"
                  /\ broker[j] = "nacked"
                  /\ LET r == Respond(ReadJob(jobs, j), ReadQC(qc, j))
                     IN  r.code = 200 /\ r.job.status = "error" /\ r.job.error # NULL /\ r.qc = NoResult

C7_Path ==
    \A j \in JobIds :
        (Unreadable(j) /\ jobs[j] # NoRow /\ jobs'[j].status # jobs[j].status
            /\ ~hist'.dbFault /\ ~hist'.connLost)
          => <<jobs[j].status, jobs'[j].status>> \in
                {<<"queued", "processing">>, <<"processing", "error">>}

C7_UnreadableInput == [](C7_State) /\ [][C7_Path]_vars

C7_Witness ==
    \E j \in JobIds :
        /\ Unreadable(j) /\ Undisturbed /\ Settled(j) /\ ~Busy(j)
        /\ StatusOf(j) = "error" /\ jobs[j].error = "open_failed" /\ ~HasResult(j)

\* ------------------------------------------------------------------ C8
\* C8: a submit that answered with an error leaves no queued job row and no work
\* item; one that answered 200 has its file, its job row and its work item.
C8_SubmitAllOrNothing ==
    \A j \in JobIds :
        /\ submitResp[j] = "error" =>
              (jobs[j] = NoRow \/ StatusOf(j) # "queued") /\ broker[j] = "none"
        /\ submitResp[j] = "ok" =>
              files[j].present /\ jobs[j] # NoRow /\ broker[j] # "none"

\* ------------------------------------------------------------------ C9
\* C9: the step a worker takes on an undecodable delivery discards the delivery
\* (it is not requeued), changes neither table and returns to the loop head.
C9_Step(w) ==
    (pc[w] = "decode" /\ ~Body(cur[w]).decodes /\ pc'[w] # "decode"
        /\ hist'.faults = hist.faults)
      => /\ jobs' = jobs
         /\ qc' = qc
         /\ pc'[w] = "idle"
         /\ Unsettled(w) => broker'[cur[w]] = "nacked"
         /\ \A m \in MsgIds : m # cur[w] => broker'[m] = broker[m]

C9_DecodeFailureDiscards == [][\A w \in Workers : C9_Step(w)]_vars

C9_Witness ==
    \E m \in BadIds : broker[m] = "nacked" /\ \A w \in Workers : cur[w] # m

\* ----------------------------------------------------------------- C10
\* C10: the table holds at most one row per job_id, the row of the latest upsert
\* is the one stored for its job_id, and an upsert leaves the rows of every
\* other job_id as they were.
C10_State ==
    /\ \A k \in Keys : Cardinality(RowsOf(qc, k)) <= 1
    /\ lastUpsert # NoResult => RowsOf(qc, lastUpsert.job_id) = {lastUpsert}

C10_Frame ==
    lastUpsert' # NoResult =>
        \A k \in Keys : k # lastUpsert'.job_id => RowsOf(qc', k) = RowsOf(qc, k)

C10_UpsertIdempotent == [](C10_State) /\ [][C10_Frame]_vars

\* a second upsert for job 1 with other values, beside a row of job 2
C10_Witness ==
    /\ lastUpsert = ResultRow(1, << >>, 2)
    /\ qc = {ResultRow(1, << >>, 2), ResultRow(2, TinyFastq, 1)}

\* ----------------------------------------------------------------- C14
\* C14: a job row carries an error text exactly when its status is error.
C14_FailureReasonIffFailed ==
    \A j \in JobIds :
        jobs[j] # NoRow => ((jobs[j].error # NULL) <=> (jobs[j].status = "error"))

\* ----------------------------------------------------------------- C15
\* C15: a store write that fails at the transition to processing, at the result
\* upsert or at the transition to done sends the worker to the failure branch
\* (nack, then status error); an analyzer error does the same.
C15_Step(w) ==
    /\ (pc[w] \in {"decode", "upsert", "setDone"} /\ pc'[w] # pc[w]
            /\ ~hist.dbFault /\ hist'.dbFault)
         => pc'[w] = "nack"
    /\ (pc[w] = "process" /\ pc'[w] \notin {"process", "idle"} /\ ~FileOf(w).openable)
         => pc'[w] = "nack"

C15_ErrorsFailTheJob == [][\A w \in Workers : C15_Step(w)]_vars

\* ----------------------------------------------------------------- C16
\* C16: a work item is discarded for a processing failure only when its job is
\* already in status error.
C16_FailedBeforeDiscard ==
    \A j \in JobIds : broker[j] = "nacked" => StatusOf(j) = "error"

\* ----------------------------------------------------------------- C18
\* C18: the transition to processing asked for a job id without a jobs row comes
\* back with an error, and no jobs row and no result row appears for such an id.
C18_UnknownJobNotFound ==
    /\ \A w \in Workers :
          (pc[w] \in {"process", "upsert", "ack", "nack", "setError", "setDone"}
              /\ ~ForeignKeyOk(JobOf(w))) => stErr[w] # NULL
    /\ DOMAIN jobs = JobIds
    /\ \A r \in qc : ForeignKeyOk(r.job_id)

\* ----------------------------------------------------------------- C19
\* C19: a worker that comes back to the loop head has had its delivery settled,
\* by an ack or by a nack; a settled delivery never changes side; a worker takes
\* a delivery only when it holds none; and a delivery becomes acked only by the
\* worker holding it, with no error, a readable input and its result row stored.
C19_Step(w) ==
    /\ (pc[w] # "idle" /\ pc'[w] = "idle" /\ held[w])
         => \/ broker'[cur[w]] \in {"acked", "nacked"}
            \/ (CrashStep(w) /\ Unsettled(w))
    /\ (cur'[w] # cur[w] /\ cur'[w] # 0) => (cur[w] = 0 /\ pc[w] = "idle")

C19_Settle(m) ==
    /\ broker[m] \in {"acked", "nacked"} => broker'[m] = broker[m]
    /\ (broker[m] # "acked" /\ broker'[m] = "acked")
         => \E w \in Workers :
               /\ cur[w] = m /\ pc[w] = "ack" /\ pc'[w] = "setDone"
               /\ err[w] = NULL /\ FileOf(w).openable /\ RowsOf(qc, JobOf(w)) # {}
    /\ (broker[m] # "nacked" /\ broker'[m] = "nacked")
         => \E w \in Workers : cur[w] = m /\ pc[w] \in {"decode", "nack"}

C19_SettledExactlyOnce ==
    [][(\A w \in Workers : C19_Step(w)) /\ (\A m \in MsgIds : C19_Settle(m))]_vars

\* both kinds of settlement have happened and the workers are back at the loop head
C19_Witness ==
    /\ \E j \in JobIds : broker[j] = "acked"
    /\ \E m \in BadIds : broker[m] = "nacked"
    /\ \A w \in Workers : pc[w] = "idle"

\* ----------------------------------------------------------------- C20
\* C20: a job in status done has a result row.
C20_DoneHasResult ==
    \A j \in JobIds : (jobs[j] # NoRow /\ StatusOf(j) = "done") => HasResult(j)

\* done after a failed store write and a redelivery
C20_Witness ==
    \E j \in JobIds :
        /\ StatusOf(j) = "done" /\ HasResult(j)
        /\ j \in hist.redelivered /\ hist.dbFault

\* ----------------------------------------------------------------- C11
\* C11: whatever the worker writes between the two reads, a response of
\* handleGetJob carries a qc only together with a job in status done, and every
\* response is a 200 or a 404.
C11_ResultOnlyWhenDone ==
    /\ (resp.code = 200 /\ resp.qc # NoResult) => resp.job.status = "done"
    /\ resp.code \in {0, 200, 404}

\* ------------------------------------------ vocabulary of the analyzer
\* the class of one character, upper and lower case alike
Upper(c) == CASE c = "g" -> "G" [] c = "c" -> "C" [] c = "n" -> "N" [] OTHER -> c
ClassOf(c) ==
    IF Upper(c) \in {"G", "C"} THEN "gc" ELSE IF Upper(c) = "N" THEN "n" ELSE "neutral"

RECURSIVE CountClass(_, _)
CountClass(seq, cls) ==
    IF seq = << >> THEN 0
    ELSE (IF ClassOf(Head(seq)) = cls THEN 1 ELSE 0) + CountClass(Tail(seq), cls)

\* the stripped second lines of the complete 4-line groups, one after the other
RECURSIVE GroupContent(_)
GroupContent(lines) ==
    IF Len(lines) < 4 THEN << >>
    ELSE TrimSpace(lines[2]) \o GroupContent(SubSeq(lines, 5, Len(lines)))

\* the lines after the last complete group
TrailingGroup(lines) == SubSeq(lines, Len(lines) - (Len(lines) % 4) + 1, Len(lines))

\* the content of a stream: the complete groups, then a trailing group's 2nd line
ContentOf(lines) ==
    GroupContent(lines) \o
        (IF Len(TrailingGroup(lines)) >= 2 THEN TrimSpace(TrailingGroup(lines)[2]) ELSE << >>)

IsFraction(f) == f[2] > 0 /\ 0 <= f[1] /\ f[1] <= f[2]

\* ----------------------------------------------------------------- C12
\* C12: on a stream of complete 4-line groups the analyzer counts one record per
\* group and avg_read_length times reads is the length of the stripped content
\* lines; on the empty stream all four metrics are 0 and there is no error.
C12_CompleteGroups ==
    analysis.ran =>
        /\ Len(stream) % 4 = 0 =>
              /\ analysis.metrics.reads = Len(stream) \div 4
              /\ analysis.metrics.avg_read_length[2] > 0
              /\ analysis.metrics.avg_read_length[1] * analysis.metrics.reads
                    = Len(GroupContent(stream)) * analysis.metrics.avg_read_length[2]
        /\ stream = << >> =>
              /\ analysis.err = NULL
              /\ analysis.metrics.reads = 0
              /\ analysis.metrics.avg_read_length[1] = 0
              /\ analysis.metrics.gc_content[1] = 0
              /\ analysis.metrics.n_content[1] = 0

\* two complete records with content of 2 and 3 characters
C12_Witness ==
    /\ analysis.ran /\ Len(stream) = 8
    /\ analysis.metrics.reads = 2 /\ analysis.metrics.avg_read_length = <<5, 2>>

\* ----------------------------------------------------------------- C13
\* C13: the GC count and the N count are the numbers of content characters of
\* those classes, case-insensitively; with the neutral characters they add up to
\* the content length; both fractions lie in [0,1], equal count / length, and
\* are 0 when the content is empty.
C13_Classification ==
    analysis.ran =>
        LET t == analysis.totals
            m == analysis.metrics
            content == ContentOf(stream)
        IN  /\ t.gcCount = CountClass(content, "gc")
            /\ t.nCount = CountClass(content, "n")
            /\ t.gcCount + t.nCount + CountClass(content, "neutral") = t.totalBases
            /\ t.gcCount >= 0 /\ t.nCount >= 0 /\ t.gcCount + t.nCount <= t.totalBases
            /\ IsFraction(m.gc_content) /\ IsFraction(m.n_content)
            /\ m.gc_content[1] * m.n_content[2] + m.n_content[1] * m.gc_content[2]
                  <= m.gc_content[2] * m.n_content[2]
            /\ m.gc_content[1] * t.totalBases = t.gcCount * m.gc_content[2]
            /\ m.n_content[1] * t.totalBases = t.nCount * m.n_content[2]
            /\ t.totalBases = 0 => (m.gc_content[1] = 0 /\ m.n_content[1] = 0)

\* a content with characters of all three classes
C13_Witness ==
    /\ analysis.ran
    /\ analysis.totals.gcCount = 2 /\ analysis.totals.nCount = 2
    /\ analysis.totals.totalBases = 5

\* ----------------------------------------------------------------- C17
\* C17: the totals are those of the complete groups plus, when the trailing
\* group has 2 or 3 lines, its second line; a trailing header alone adds
\* nothing; and no line at position 0, 2 or 3 of a group changes any total,
\* whatever its text.
C17_TrailingGroup ==
    analysis.ran =>
        LET t == analysis.totals
            content == ContentOf(stream)
            tail == TrailingGroup(stream)
        IN  /\ t.totalReads = (Len(stream) \div 4) + (IF Len(tail) >= 2 THEN 1 ELSE 0)
            /\ t.totalBases = Len(content)
            /\ t.gcCount = CountClass(content, "gc")
            /\ t.nCount = CountClass(content, "n")
            /\ \A i \in 1..Len(stream) : \A l \in AnalyzerLines :
                  (i - 1) % 4 # 1 => Scan([stream EXCEPT ![i] = l]) = t

\* one complete record, then a header full of bases and a sequence line
C17_Witness ==
    /\ analysis.ran /\ Len(stream) = 6
    /\ stream[5] = <<"G", "c", "\t">> /\ stream[6] = <<" ", "n", "A", "N">>
    /\ analysis.totals.totalReads = 2

====
